---- MODULE Spec2Model ----
(***************************************************************************)
(* Account registry and account-level time logging of mcp_atlassian        *)
(* (src/src/mcp_atlassian/jira/accounts.py, models/jira/account.py).       *)
(*                                                                         *)
(* Python strings that the code splits, strips or formats are sequences of *)
(* one-character strings; Optional[str] values are records [some, v].      *)
(* A dict is a sequence of [k, v] pairs in insertion order.                *)
(***************************************************************************)
EXTENDS Integers, Sequences, FiniteSets, TLC

VARIABLES env, _accounts, _account_project_mappings, _accounts_loaded,
          clock, last, worklog_calls, threads, entry_ids

vars == <<env, _accounts, _account_project_mappings, _accounts_loaded,
          clock, last, worklog_calls, threads, entry_ids>>

(***************************************************************************)
(* Bounds of the model.                                                    *)
(***************************************************************************)
MaxSegments == 2
MaxKeys == 2
MaxProjects == 2
MaxClock == 1
MaxDurationLen == 3
MaxEntries == 2

(***************************************************************************)
(* Python values.                                                          *)
(***************************************************************************)
None == [some |-> FALSE, v |-> <<>>]
Some(s) == [some |-> TRUE, v |-> s]
\* bool(x) of an Optional[str]: None and "" are falsy.
Truthy(o) == o.some /\ o.v # <<>>

\* dict.get(k, default) of a mapping modelled as a function.
Get(d, k, default) == IF k \in DOMAIN d THEN d[k] ELSE default

\* Sequences of length 0..n over S.
SeqUpTo(S, n) == UNION {[1..k -> S] : k \in 0..n}

RECURSIVE Join(_, _)
\* sep.join(parts)
Join(parts, sep) ==
    IF parts = <<>> THEN <<>>
    ELSE IF Len(parts) = 1 THEN Head(parts)
    ELSE Head(parts) \o sep \o Join(Tail(parts), sep)

Contains(s, c) == \E i \in 1..Len(s) : s[i] = c

\* Index of the first occurrence of c in s, 0 when absent.
IndexOf(s, c) ==
    IF Contains(s, c) THEN CHOOSE i \in 1..Len(s) : s[i] = c /\ \A j \in 1..(i - 1) : s[j] # c
    ELSE 0

RECURSIVE Split(_, _)
\* str.split(c): always at least one part.
Split(s, c) ==
    LET i == IndexOf(s, c)
    IN  IF i = 0 THEN <<s>>
        ELSE <<SubSeq(s, 1, i - 1)>> \o Split(SubSeq(s, i + 1, Len(s)), c)

\* str.split(c, 1) of a string that contains c: <<head, tail>>.
SplitOnce(s, c) ==
    LET i == IndexOf(s, c)
    IN  <<SubSeq(s, 1, i - 1), SubSeq(s, i + 1, Len(s))>>

IsSpace(c) == c = " "

RECURSIVE LStrip(_)
LStrip(s) == IF s # <<>> /\ IsSpace(Head(s)) THEN LStrip(Tail(s)) ELSE s

RECURSIVE RStrip(_)
RStrip(s) ==
    IF s # <<>> /\ IsSpace(s[Len(s)]) THEN RStrip(SubSeq(s, 1, Len(s) - 1)) ELSE s

\* str.strip()
Strip(s) == RStrip(LStrip(s))

EndsWith(s, c) == s # <<>> /\ s[Len(s)] = c

(***************************************************************************)
(* dict operations (insertion-ordered).                                    *)
(***************************************************************************)
DictHas(d, k) == \E i \in 1..Len(d) : d[i].k = k
DictGet(d, k) == d[CHOOSE i \in 1..Len(d) : d[i].k = k].v
DictSet_AlwaysAppend(d, k, v) == Append(d, [k |-> k, v |-> v])

\* d[k] = v: replaces in place when k is present, appends otherwise.
DictSet(d, k, v) ==
    IF DictHas(d, k)
    THEN [i \in 1..Len(d) |-> IF d[i].k = k THEN [k |-> k, v |-> v] ELSE d[i]]
    ELSE Append(d, [k |-> k, v |-> v])
DictValues(d) == [i \in 1..Len(d) |-> d[i].v]

(***************************************************************************)
(* String literals of the code.                                            *)
(***************************************************************************)
DefaultId == <<"d", "e", "f", "a", "u", "l", "t">>
DefaultName ==
    <<"D", "e", "f", "a", "u", "l", "t", " ", "A", "c", "c", "o", "u", "n", "t">>
DescNoProjects ==
    <<"D", "e", "f", "a", "u", "l", "t", " ", "a", "c", "c", "o", "u", "n",
      "t", " ", "(", "n", "o", " ", "p", "r", "o", "j", "e", "c", "t", "s",
      " ", "a", "v", "a", "i", "l", "a", "b", "l", "e", ")">>
DescAllProjects ==
    <<"D", "e", "f", "a", "u", "l", "t", " ", "a", "c", "c", "o", "u", "n",
      "t", " ", "c", "o", "n", "t", "a", "i", "n", "i", "n", "g", " ", "a",
      "l", "l", " ", "a", "v", "a", "i", "l", "a", "b", "l", "e", " ", "p",
      "r", "o", "j", "e", "c", "t", "s">>
AccountPrefix == <<"a", "c", "c", "o", "u", "n", "t", "_">>
\* A formatted message: the template and the value substituted into it.
Msg(fmt, arg) == [fmt |-> fmt, arg |-> arg]

(***************************************************************************)
(* Account (models/jira/account.py).                                       *)
(***************************************************************************)
Account(id, name, project_keys, is_active, description) ==
    [id |-> id, name |-> name, description |-> description,
     project_keys |-> project_keys, is_active |-> is_active, created_by |-> None]

(***************************************************************************)
(* Collaborator outcomes.  A collaborator method is missing from the       *)
(* object (hasattr is false), raises an exception, or returns a value.     *)
(***************************************************************************)
Missing == [kind |-> "missing", value |-> <<>>, exc |-> Msg("", <<>>)]
Raises(m) == [kind |-> "raises", value |-> <<>>, exc |-> m]
Returns(x) == [kind |-> "returns", value |-> x, exc |-> Msg("", <<>>)]

Boom == Msg("boom", <<>>)

\* Project mappings returned by get_all_projects.
ProjP == [key |-> <<"P">>, name |-> <<"1">>]
ProjQ == [key |-> <<"Q">>, name |-> <<"2">>]
ProjNoKey == [name |-> <<"0">>]
Projects == {ProjP, ProjQ, ProjNoKey}

ProjectOutcomes ==
    {Missing, Raises(Boom)} \cup {Returns(l) : l \in SeqUpTo(Projects, MaxProjects)}

(***************************************************************************)
(* _create_default_account_mapping                                         *)
(***************************************************************************)
RECURSIVE DefaultProjectKeys(_)
\* [project.get("key", "") for project in all_projects if project.get("key")]
DefaultProjectKeys(all_projects) ==
    IF all_projects = <<>> THEN <<>>
    ELSE LET p == Head(all_projects)
         IN  (IF Get(p, "key", <<>>) # <<>> THEN <<Get(p, "key", <<>>)>> ELSE <<>>)
             \o DefaultProjectKeys(Tail(all_projects))

\* The registry is the pair [accounts, mappings].
Registry(accs, maps) == [accounts |-> accs, mappings |-> maps]

\* The outcome of a load step: whether it raised, and the registry it left.
Loaded(reg) == [raised |-> FALSE, exc |-> Msg("", <<>>), reg |-> reg]

default_account_except_Reraise(reg, e) == [raised |-> TRUE, exc |-> e, reg |-> reg]

\* except Exception as e: logger.error(...) -- nothing is created, nothing raised.
default_account_except(reg, e) == Loaded(reg)

create_default_account_mapping(reg, po) ==
    IF po.kind = "raises"
    THEN default_account_except(reg, po.exc)
    ELSE LET all_projects == IF po.kind = "missing" THEN <<>> ELSE po.value
         IN  IF all_projects = <<>>
             THEN Loaded(Registry(
                    DictSet(reg.accounts, DefaultId,
                            Account(DefaultId, DefaultName, <<>>, TRUE,
                                    Some(DescNoProjects))),
                    DictSet(reg.mappings, DefaultId, <<>>)))
             ELSE LET keys == DefaultProjectKeys(all_projects)
                  IN  Loaded(Registry(
                        DictSet(reg.accounts, DefaultId,
                                Account(DefaultId, DefaultName, keys, TRUE,
                                        Some(DescAllProjects))),
                        DictSet(reg.mappings, DefaultId, keys)))

(***************************************************************************)
(* _load_account_mappings                                                  *)
(***************************************************************************)
ParseProjectKeys_Reversed(project_keys_str) ==
    LET ks == Split(project_keys_str, ",")
    IN  [i \in 1..Len(ks) |-> Strip(ks[Len(ks) + 1 - i])]

\* [key.strip() for key in project_keys_str.split(",")]
ParseProjectKeys(project_keys_str) ==
    LET ks == Split(project_keys_str, ",")
    IN  [i \in 1..Len(ks) |-> Strip(ks[i])]

LoadSegment_Inactive(reg, account_mapping) ==
    IF ~Contains(account_mapping, ":") THEN reg
    ELSE LET parts == SplitOnce(account_mapping, ":")
             project_keys == ParseProjectKeys(parts[2])
             account == Account(Strip(parts[1]), Strip(parts[1]), project_keys, FALSE, None)
         IN  Registry(DictSet(reg.accounts, account.id, account),
                      DictSet(reg.mappings, account.id, project_keys))

LoadSegment_MergeKeys(reg, account_mapping) ==
    IF ~Contains(account_mapping, ":") THEN reg
    ELSE LET parts == SplitOnce(account_mapping, ":")
             earlier == IF DictHas(reg.mappings, Strip(parts[1]))
                        THEN DictGet(reg.mappings, Strip(parts[1])) ELSE <<>>
             project_keys == earlier \o ParseProjectKeys(parts[2])
             account == Account(Strip(parts[1]), Strip(parts[1]), project_keys, TRUE, None)
         IN  Registry(DictSet(reg.accounts, account.id, account),
                      DictSet(reg.mappings, account.id, project_keys))

\* One iteration of the loop over account_mappings.split(";").
LoadSegment(reg, account_mapping) ==
    IF ~Contains(account_mapping, ":") THEN reg
    ELSE LET parts == SplitOnce(account_mapping, ":")
             project_keys == ParseProjectKeys(parts[2])
             account == Account(Strip(parts[1]), Strip(parts[1]), project_keys, TRUE, None)
         IN  Registry(DictSet(reg.accounts, account.id, account),
                      DictSet(reg.mappings, account.id, project_keys))

RECURSIVE LoadSegments(_, _)
LoadSegments(reg, segs) ==
    IF segs = <<>> THEN reg
    ELSE LoadSegments(LoadSegment(reg, Head(segs)), Tail(segs))

load_account_mappings_try_FallbackWhenEmpty(reg, account_mappings, po) ==
    IF account_mappings = <<>>
       \/ LoadSegments(reg, Split(account_mappings, ";")).accounts = <<>>
    THEN create_default_account_mapping(reg, po)
    ELSE Loaded(LoadSegments(reg, Split(account_mappings, ";")))

\* The try block of _load_account_mappings.
load_account_mappings_try(reg, account_mappings, po) ==
    IF account_mappings = <<>>
    THEN create_default_account_mapping(reg, po)
    ELSE Loaded(LoadSegments(reg, Split(account_mappings, ";")))

\* except Exception: the default-account fallback runs on the registry the
\* try block left.  os.getenv returns a str and no statement of the parse
\* raises on one, so the try block raises only if the fallback it calls does.
load_account_mappings_except(tried, po) ==
    IF tried.raised THEN create_default_account_mapping(tried.reg, po) ELSE tried

load_account_mappings(reg, account_mappings, po) ==
    load_account_mappings_except(load_account_mappings_try(reg, account_mappings, po), po)

ensure_accounts_loaded_Always(reg, loaded, account_mappings, po) ==
    load_account_mappings(reg, account_mappings, po)

\* _ensure_accounts_loaded: the outcome of the lazy load.
ensure_accounts_loaded(reg, loaded, account_mappings, po) ==
    IF ~loaded THEN load_account_mappings(reg, account_mappings, po) ELSE Loaded(reg)

(***************************************************************************)
(* get_all_accounts                                                        *)
(***************************************************************************)
UpperLetters ==
    <<"A", "B", "C", "D", "E", "F", "G", "H", "I", "J", "K", "L", "M",
      "N", "O", "P", "Q", "R", "S", "T", "U", "V", "W", "X", "Y", "Z">>
LowerLetters ==
    <<"a", "b", "c", "d", "e", "f", "g", "h", "i", "j", "k", "l", "m",
      "n", "o", "p", "q", "r", "s", "t", "u", "v", "w", "x", "y", "z">>

LowerChar(c) ==
    IF \E i \in 1..Len(UpperLetters) : UpperLetters[i] = c
    THEN LowerLetters[CHOOSE i \in 1..Len(UpperLetters) : UpperLetters[i] = c]
    ELSE c

\* str.lower()
StrLower(s) == [i \in 1..Len(s) |-> LowerChar(s[i])]

\* needle in hay, for strings
IsSubstring(needle, hay) ==
    \E i \in 0..(Len(hay) - Len(needle)) : SubSeq(hay, i + 1, i + Len(needle)) = needle

\* Account.to_simplified_dict: optional keys appear only when truthy
\* (created_by is never set by this module).
account_to_simplified_dict(a) ==
    LET keys == {"id", "name", "is_active", "project_count"}
                \cup (IF Truthy(a.description) THEN {"description"} ELSE {})
                \cup (IF a.project_keys # <<>> THEN {"project_keys"} ELSE {})
    IN  [k \in keys |->
            CASE k = "id" -> a.id
              [] k = "name" -> a.name
              [] k = "is_active" -> a.is_active
              [] k = "project_count" -> Len(a.project_keys)
              [] k = "description" -> a.description.v
              [] k = "project_keys" -> a.project_keys]

AccountMatches_CaseSensitive(account, search_filter) ==
    ~(Truthy(search_filter) /\ ~IsSubstring(search_filter.v, account.name))

\* not (search_filter and search_filter.lower() not in account.name.lower())
AccountMatches(account, search_filter) ==
    ~(Truthy(search_filter)
      /\ ~IsSubstring(StrLower(search_filter.v), StrLower(account.name)))

get_all_accounts(accs, search_filter) ==
    LET kept == SelectSeq(DictValues(accs), LAMBDA a : AccountMatches(a, search_filter))
    IN  [i \in 1..Len(kept) |-> account_to_simplified_dict(kept[i])]

(***************************************************************************)
(* get_account, get_account_projects, validate_account_access              *)
(***************************************************************************)
get_account_FirstEntry(accs, account_id) ==
    IF accs # <<>> THEN Some(accs[1].v) ELSE None

\* self._accounts.get(account_id)
get_account(accs, account_id) ==
    IF DictHas(accs, account_id) THEN Some(DictGet(accs, account_id)) ELSE None

RECURSIVE FilterProjects_ByAccountOrder(_, _)
FilterProjects_ByAccountOrder(all_projects, project_keys) ==
    IF project_keys = <<>> THEN <<>>
    ELSE SelectSeq(all_projects, LAMBDA p : Get(p, "key", <<>>) = Head(project_keys))
         \o FilterProjects_ByAccountOrder(all_projects, Tail(project_keys))

RECURSIVE FilterProjects(_, _)
\* for project in all_projects: if project.get("key", "") in account.project_keys
FilterProjects(all_projects, project_keys) ==
    IF all_projects = <<>> THEN <<>>
    ELSE LET project == Head(all_projects)
             project_key == Get(project, "key", <<>>)
         IN  (IF \E i \in 1..Len(project_keys) : project_keys[i] = project_key
              THEN <<project>> ELSE <<>>)
             \o FilterProjects(Tail(all_projects), project_keys)

\* The result of the call: [raised, exc, ret].
Returned(x) == [raised |-> FALSE, exc |-> Msg("", <<>>), ret |-> x]

get_account_projects(accs, account_id, po) ==
    LET account == get_account(accs, account_id)
    IN  IF ~account.some THEN Returned(<<>>)
        ELSE IF po.kind = "missing" THEN Returned(<<>>)
        ELSE IF po.kind = "raises" THEN Returned(<<>>)
        ELSE Returned(FilterProjects(po.value, account.v.project_keys))

validate_account_access_NoProjectCheck(accs, account_id, project_key) ==
    LET account == get_account(accs, account_id)
    IN  account.some /\ account.v.is_active

validate_account_access_AlwaysTrue(accs, account_id, project_key) == TRUE

validate_account_access(accs, account_id, project_key) ==
    LET account == get_account(accs, account_id)
    IN  IF ~account.some THEN FALSE
        ELSE IF ~account.v.is_active THEN FALSE
        ELSE IF Truthy(project_key)
                /\ ~\E i \in 1..Len(account.v.project_keys) :
                       account.v.project_keys[i] = project_key.v
             THEN FALSE
        ELSE TRUE

(***************************************************************************)
(* _simple_parse_time_spent                                                *)
(***************************************************************************)
IsDigit(c) == c \in {"0", "1", "2", "3", "4", "5", "6", "7", "8", "9"}
DigitValue(c) ==
    CASE c = "0" -> 0 [] c = "1" -> 1 [] c = "2" -> 2 [] c = "3" -> 3 [] c = "4" -> 4
      [] c = "5" -> 5 [] c = "6" -> 6 [] c = "7" -> 7 [] c = "8" -> 8 [] c = "9" -> 9
DigitChar(d) == <<"0", "1", "2", "3", "4", "5", "6", "7", "8", "9">>[d + 1]

RECURSIVE DigitsValue(_)
DigitsValue(s) ==
    IF s = <<>> THEN 0
    ELSE DigitsValue(SubSeq(s, 1, Len(s) - 1)) * 10 + DigitValue(s[Len(s)])

RECURSIVE Digits(_)
\* str(n) of a natural number.
Digits(n) == IF n < 10 THEN <<DigitChar(n)>> ELSE Digits(n \div 10) \o <<DigitChar(n % 10)>>

RECURSIVE Pow10(_)
Pow10(n) == IF n = 0 THEN 1 ELSE 10 * Pow10(n - 1)

AllDigits(s) == \A i \in 1..Len(s) : IsDigit(s[i])

\* float(s) on the strings [sign] digits [. digits], [sign] inf and nan
\* (surrounding blanks stripped); any other string is a ValueError ("err").
\* A finite value is (-1)^neg * mant / 10^scale, kept exact.
FloatValue(kind, neg, mant, scale) ==
    [kind |-> kind, neg |-> neg, mant |-> mant, scale |-> scale]

FloatOfParts(ip, fp, neg) ==
    IF AllDigits(ip) /\ AllDigits(fp) /\ Len(ip) + Len(fp) > 0
    THEN FloatValue("fin", neg, DigitsValue(ip \o fp), Len(fp))
    ELSE FloatValue("err", FALSE, 0, 0)

FloatOfUnsigned(u, neg) ==
    IF u = <<"i", "n", "f">> THEN FloatValue("inf", neg, 0, 0)
    ELSE IF u = <<"n", "a", "n">> THEN FloatValue("nan", neg, 0, 0)
    ELSE IF IndexOf(u, ".") = 0 THEN FloatOfParts(u, <<>>, neg)
    ELSE FloatOfParts(SubSeq(u, 1, IndexOf(u, ".") - 1),
                      SubSeq(u, IndexOf(u, ".") + 1, Len(u)), neg)

FloatOfStripped(t) ==
    IF t # <<>> /\ Head(t) \in {"-", "+"}
    THEN FloatOfUnsigned(Tail(t), Head(t) = "-")
    ELSE FloatOfUnsigned(t, FALSE)

PyFloat(s) == FloatOfStripped(Strip(s))

OverflowMsg == Msg("cannot convert float infinity to integer", <<>>)

\* The decimal numbers <<mant, scale, mult>> (mant / 10^scale) whose product
\* with mult, computed in IEEE-754 double precision the way the code computes
\* it (days as f * 24 * 3600), falls just below the exact whole product, so
\* that int() cuts it to one less.  The table is complete for the numerals
\* of up to four characters over the digits of DurationChars.
DoubleProductBelow ==
    {<<12, 1, 86400>>, <<14, 1, 86400>>, <<15, 2, 86400>>, <<19, 1, 86400>>,
     <<24, 1, 86400>>, <<29, 1, 86400>>, <<29, 2, 86400>>, <<41, 1, 60>>,
     <<41, 1, 3600>>, <<41, 1, 86400>>, <<51, 1, 86400>>, <<91, 1, 86400>>,
     <<92, 1, 86400>>, <<95, 2, 86400>>, <<205, 2, 60>>}

FloatShortfall(f, mult) ==
    IF \E e \in DoubleProductBelow :
          e[3] = mult /\ f.mant * Pow10(e[2]) = e[1] * Pow10(f.scale)
    THEN 1 ELSE 0

\* abs(int(f * mult)) of a finite f.
IntMagnitude(f, mult) ==
    ((f.mant * mult) \div Pow10(f.scale)) - FloatShortfall(f, mult)

IntOfFloat_InfGives60(f, mult) ==
    IF f.kind \in {"err", "nan", "inf"} THEN Returns(60)
    ELSE IF f.neg THEN Returns(0 - IntMagnitude(f, mult))
    ELSE Returns(IntMagnitude(f, mult))

\* int(f * mult) inside try/except (ValueError, TypeError): a ValueError
\* (unparseable text, or int(nan)) gives 60; the OverflowError of int(inf) is
\* not caught by that clause and leaves the method.
IntOfFloat(f, mult) ==
    IF f.kind \in {"err", "nan"} THEN Returns(60)
    ELSE IF f.kind = "inf" THEN Raises(OverflowMsg)
    ELSE IF f.neg THEN Returns(0 - IntMagnitude(f, mult))
    ELSE Returns(IntMagnitude(f, mult))

IntOfFloatTimes(body, mult) == IntOfFloat(PyFloat(body), mult)

simple_parse_time_spent_NoSuffixSeconds(time_spent) ==
    LET body == SubSeq(time_spent, 1, Len(time_spent) - 1)
    IN  IF EndsWith(time_spent, "h") THEN IntOfFloatTimes(body, 3600)
        ELSE IF EndsWith(time_spent, "m") THEN IntOfFloatTimes(body, 60)
        ELSE IF EndsWith(time_spent, "d") THEN IntOfFloatTimes(body, 24 * 3600)
        ELSE IntOfFloatTimes(time_spent, 1)

simple_parse_time_spent(time_spent) ==
    LET body == SubSeq(time_spent, 1, Len(time_spent) - 1)
    IN  IF EndsWith(time_spent, "h") THEN IntOfFloatTimes(body, 3600)
        ELSE IF EndsWith(time_spent, "m") THEN IntOfFloatTimes(body, 60)
        ELSE IF EndsWith(time_spent, "d") THEN IntOfFloatTimes(body, 24 * 3600)
        ELSE IntOfFloatTimes(time_spent, 60)

(***************************************************************************)
(* TimeLogEntry (models/jira/account.py).                                  *)
(***************************************************************************)
TimeLogEntry(id, account_id, project_id, issue_key, time_spent, time_spent_seconds, description, started, created, updated) ==
    [id |-> id, account_id |-> account_id, project_id |-> project_id,
     issue_key |-> issue_key, user |-> None, time_spent |-> time_spent,
     time_spent_seconds |-> time_spent_seconds, description |-> description,
     started |-> started, created |-> created, updated |-> updated]

\* TimeLogEntry.to_simplified_dict: optional keys appear only when truthy.
to_simplified_dict(e) ==
    LET keys == {"id", "account_id", "time_spent", "time_spent_seconds"}
                \cup (IF Truthy(e.project_id) THEN {"project_id"} ELSE {})
                \cup (IF Truthy(e.issue_key) THEN {"issue_key"} ELSE {})
                \cup (IF Truthy(e.description) THEN {"description"} ELSE {})
                \cup (IF e.started # <<>> THEN {"started"} ELSE {})
                \cup (IF e.created # <<>> THEN {"created"} ELSE {})
                \cup (IF e.updated # <<>> THEN {"updated"} ELSE {})
    IN  [k \in keys |->
            CASE k = "id" -> e.id
              [] k = "account_id" -> e.account_id
              [] k = "time_spent" -> e.time_spent
              [] k = "time_spent_seconds" -> e.time_spent_seconds
              [] k = "project_id" -> e.project_id.v
              [] k = "issue_key" -> e.issue_key.v
              [] k = "description" -> e.description.v
              [] k = "started" -> e.started
              [] k = "created" -> e.created
              [] k = "updated" -> e.updated]

\* datetime.now().isoformat() at clock second t.
IsoFormat(t) == <<"T">> \o Digits(t)

(***************************************************************************)
(* TimeLogEntry.from_api_response: the time_spent_seconds it stores.       *)
(***************************************************************************)
\* Python values a payload can carry under "time_spent_seconds".
PyNone == [t |-> "none", n |-> 0, s |-> <<>>, f |-> FloatValue("fin", FALSE, 0, 0)]
PyInt(n) == [t |-> "int", n |-> n, s |-> <<>>, f |-> FloatValue("fin", FALSE, 0, 0)]
PyStr(s) == [t |-> "str", n |-> 0, s |-> s, f |-> FloatValue("fin", FALSE, 0, 0)]
PyFloatOf(f) == [t |-> "float", n |-> 0, s |-> <<>>, f |-> f]
PyList == [t |-> "list", n |-> 0, s |-> <<>>, f |-> FloatValue("fin", FALSE, 0, 0)]

\* int(s) of a str: blanks stripped, an optional sign, then digits only.
IntOfStr(s) ==
    IF Strip(s) # <<>> /\ Head(Strip(s)) \in {"-", "+"}
    THEN IF Len(Strip(s)) > 1 /\ AllDigits(Tail(Strip(s)))
         THEN Returns(IF Head(Strip(s)) = "-" THEN 0 - DigitsValue(Tail(Strip(s)))
                      ELSE DigitsValue(Tail(Strip(s))))
         ELSE Raises(Msg("ValueError", <<>>))
    ELSE IF Strip(s) # <<>> /\ AllDigits(Strip(s))
         THEN Returns(DigitsValue(Strip(s)))
         ELSE Raises(Msg("ValueError", <<>>))

\* int(x): TypeError for a list, ValueError for a bad str or nan,
\* OverflowError for an infinite float.
PyIntOf(x) ==
    IF x.t = "int" THEN Returns(x.n)
    ELSE IF x.t = "str" THEN IntOfStr(x.s)
    ELSE IF x.t = "list" THEN Raises(Msg("TypeError", <<>>))
    ELSE IF x.f.kind = "nan" THEN Raises(Msg("ValueError", <<>>))
    ELSE IF x.f.kind = "inf" THEN Raises(OverflowMsg)
    ELSE IF x.f.neg THEN Returns(0 - (x.f.mant \div Pow10(x.f.scale)))
    ELSE Returns(x.f.mant \div Pow10(x.f.scale))

\* except (ValueError, TypeError): time_spent_seconds = 0; any other
\* exception leaves from_api_response.
seconds_except(x, r) ==
    IF r.exc = OverflowMsg THEN r ELSE Returns(0)

\* int(time_spent_seconds) if time_spent_seconds is not None else 0, in the try.
SecondsOfValue(x) ==
    IF x.t = "none" THEN Returns(0)
    ELSE IF PyIntOf(x).kind = "raises" THEN seconds_except(x, PyIntOf(x))
    ELSE PyIntOf(x)

\* A payload: None, an empty dict, a value that is no dict, or a dict with
\* or without the key "time_spent_seconds".
Payload(shape, has, value) == [shape |-> shape, has |-> has, value |-> value]

\* The time_spent_seconds of the entry from_api_response returns: the class
\* default 0 for a falsy or non-dict payload, data.get(key, 0) converted
\* otherwise.
from_api_response_seconds(data) ==
    IF data.shape \in {"none", "empty", "nondict"} THEN Returns(0)
    ELSE IF ~data.has THEN SecondsOfValue(PyInt(0))
    ELSE SecondsOfValue(data.value)

(***************************************************************************)
(* log_time_to_account                                                     *)
(***************************************************************************)
\* Worklog mappings returned by add_worklog.
WorklogFull ==
    [id |-> <<"7">>, timeSpentSeconds |-> 7200, started |-> <<"s", "0">>,
     created |-> <<"c", "0">>, updated |-> <<"u", "0">>]
WorklogPartial == [started |-> <<"s", "0">>]

WorklogOutcomes ==
    {Missing, Raises(Boom), Returns(WorklogFull), Returns(WorklogPartial)}
\* Outcomes of the optional _parse_time_spent method of another mixin.
ParseOutcomes == {Missing, Raises(Boom), Returns(45)}

\* The result of a log_time_to_account call: [raised, exc, ret, calls], calls
\* being the add_worklog invocations it made.
log_time_except_Reraise(e, calls) ==
    [raised |-> TRUE, exc |-> e, ret |-> <<>>, calls |-> calls]

\* except Exception as e: return {"success": False, "error": str(e)}
log_time_except(e, calls) ==
    [raised |-> FALSE, exc |-> Msg("", <<>>),
     ret |-> [success |-> FALSE, error |-> e], calls |-> calls]

log_time_success(accs, account_id, entry, calls) ==
    LET account == get_account(accs, account_id)
    IN  [raised |-> FALSE, exc |-> Msg("", <<>>),
         ret |-> [success |-> TRUE,
                  message |-> Msg("Time logged successfully to account {}", account_id),
                  account_name |-> IF account.some THEN account.v.name ELSE account_id,
                  time_log_entry |-> to_simplified_dict(entry)],
         calls |-> calls]

StartedOr_AlwaysFallback(started, fallback) == fallback

\* started or <fallback>: None and "" give the fallback.
StartedOr(started, fallback) == IF Truthy(started) THEN started.v ELSE fallback

AddWorklogCall_CommentDropped(issue_key, time_spent, description, started) ==
    [issue_key |-> issue_key.v, time_spent |-> time_spent, comment |-> None,
     started |-> started]

\* self.add_worklog(issue_key=..., time_spent=..., comment=description, started=...)
AddWorklogCall(issue_key, time_spent, description, started) ==
    [issue_key |-> issue_key.v, time_spent |-> time_spent, comment |-> description,
     started |-> started]

WorklogSeconds_Zero(worklog_result) == 0

\* worklog_result.get("timeSpentSeconds", 0)
WorklogSeconds(worklog_result) == Get(worklog_result, "timeSpentSeconds", 0)

log_time_issue_branch(accs, account_id, time_spent, description, project_key, issue_key, started, wo) ==
    LET call == AddWorklogCall(issue_key, time_spent, description, started)
    IN  IF wo.kind = "missing"
        THEN log_time_except(Msg("add_worklog method not available", <<>>), <<>>)
        ELSE IF wo.kind = "raises" THEN log_time_except(wo.exc, <<call>>)
        ELSE LET worklog_result == wo.value
                 entry == TimeLogEntry(
                            Get(worklog_result, "id", <<>>), account_id, project_key,
                            issue_key, time_spent, WorklogSeconds(worklog_result),
                            description,
                            StartedOr(started, Get(worklog_result, "started", <<>>)),
                            Get(worklog_result, "created", <<>>),
                            Get(worklog_result, "updated", <<>>))
             IN  log_time_success(accs, account_id, entry, <<call>>)

log_time_account_branch(accs, account_id, time_spent, description, project_key, started, pso, t) ==
    LET parsed == IF pso.kind = "missing" THEN simple_parse_time_spent(time_spent) ELSE pso
    IN  IF parsed.kind = "raises" THEN log_time_except(parsed.exc, <<>>)
        ELSE LET entry == TimeLogEntry(
                            AccountPrefix \o account_id \o <<"_">> \o Digits(t),
                            account_id, project_key, None, time_spent, parsed.value,
                            description,
                            StartedOr(started, IsoFormat(t)),
                            IsoFormat(t), IsoFormat(t))
             IN  log_time_success(accs, account_id, entry, <<>>)

log_time_to_account_NoValidation(accs, account_id, time_spent, description, project_key, issue_key, started, wo, pso, t) ==
    IF Truthy(issue_key)
    THEN log_time_issue_branch(accs, account_id, time_spent, description,
                               project_key, issue_key, started, wo)
    ELSE log_time_account_branch(accs, account_id, time_spent, description,
                                 project_key, started, pso, t)

log_time_to_account(accs, account_id, time_spent, description, project_key, issue_key, started, wo, pso, t) ==
    IF ~validate_account_access(accs, account_id, project_key)
    THEN log_time_except(Msg("Invalid account access for account {}", account_id), <<>>)
    ELSE IF Truthy(issue_key)
         THEN log_time_issue_branch(accs, account_id, time_spent, description,
                                    project_key, issue_key, started, wo)
         ELSE log_time_account_branch(accs, account_id, time_spent, description,
                                      project_key, started, pso, t)

(***************************************************************************)
(* Inputs.                                                                 *)
(***************************************************************************)
Seg(name, keys) == name \o <<":">> \o Join(keys, <<",">>)

\* ACCOUNT_MAPPINGS values of the operations' specification: unset/empty, a
\* string without any name:keys segment, one account, two accounts.
MainEnvs ==
    {<<>>,
     <<"x">>,
     Seg(<<"a">>, <<<<"P">>>>),
     Join(<<Seg(<<"a">>, <<<<"P">>, <<"Q">>>>), Seg(<<"b">>, <<<<"Q">>>>)>>, <<";">>)}

\* ACCOUNT_MAPPINGS values of the load specification: up to MaxSegments
\* segments, each name:keys with up to MaxKeys keys (names and keys with and
\* without surrounding blanks), or a segment without ':'.
NameTokens == {<<"a">>, <<"b">>, <<" ", "a">>}
KeyTokens == {<<"P">>, <<"Q">>}
KeyLists == SeqUpTo(KeyTokens, MaxKeys) \ {<<>>}
Segments ==
    {Seg(n, ks) : n \in NameTokens, ks \in KeyLists}
    \cup {<<"x">>, Seg(<<"b">>, <<<<" ", "Q", " ">>, <<"P">>>>),
          Seg(<<"a", "-", "b">>, <<<<"P">>>>)}
LoadEnvs == {Join(segs, <<";">>) : segs \in SeqUpTo(Segments, MaxSegments)}

AccountIds == {<<"a">>, <<"b">>, DefaultId}
ProjectKeyArgs == {None, Some(<<>>), Some(<<"P">>), Some(<<"Q">>)}
IssueKeyArgs == {None, Some(<<>>), Some(<<"P", "-", "1">>)}
TimeSpentArgs == {<<"2", "h">>, <<"4", "5">>, <<"x">>, <<"i", "n", "f">>}
DescriptionArgs == {None, Some(<<"w">>)}
StartedArgs == {None, Some(<<>>), Some(<<"s", "1">>)}
\* Duration strings handed to _simple_parse_time_spent: every string of up to
\* MaxDurationLen characters over digits, '.', '-', the suffixes, a blank and
\* a letter, and the texts float() reads as infinity and not-a-number.
DurationChars ==
    {"0", "1", "2", "4", "5", "9", ".", "-", "h", "m", "d", "x", " "}
DurationStrings ==
    SeqUpTo(DurationChars, MaxDurationLen)
    \cup {<<"i", "n", "f">>, <<"-", "i", "n", "f">>, <<"n", "a", "n">>,
          <<"i", "n", "f", "h">>, <<"n", "a", "n", "d">>}
\* Payloads handed to TimeLogEntry.from_api_response.
SecondsValues ==
    {PyNone, PyList, PyInt(0), PyInt(5), PyInt(0 - 5), PyInt(7200),
     PyStr(<<"7">>), PyStr(<<"-", "3">>), PyStr(<<" ", "1", "2", " ">>),
     PyStr(<<"x">>), PyStr(<<"2", ".", "5">>), PyStr(<<>>),
     PyFloatOf(FloatValue("fin", FALSE, 29, 1)), PyFloatOf(FloatValue("fin", TRUE, 29, 1)),
     PyFloatOf(FloatValue("inf", FALSE, 0, 0)), PyFloatOf(FloatValue("nan", FALSE, 0, 0))}
ApiPayloads ==
    {Payload("none", FALSE, PyNone), Payload("empty", FALSE, PyNone),
     Payload("nondict", FALSE, PyNone), Payload("dict", FALSE, PyNone)}
    \cup {Payload("dict", TRUE, v) : v \in SecondsValues}
SearchFilterArgs ==
    {None, Some(<<>>), Some(<<"A">>), Some(<<"d">>), Some(<<"C", "C">>), Some(<<"z">>)}


(***************************************************************************)
(* Threads making their first public call: each runs                       *)
(* _ensure_accounts_loaded statement by statement, without a lock.         *)
(***************************************************************************)
Threads == {"t1", "t2", "t3"}

\* ACCOUNT_MAPPINGS values of the threads' specification: those of the
\* operations' specification and one naming an account in two segments.
RaceEnvs ==
    MainEnvs \cup {Join(<<Seg(<<"b">>, <<<<"P">>>>), Seg(<<"b">>, <<<<"Q">>>>)>>, <<";">>)}

\* What get_all_projects answers to a thread during the race: the live
\* project list may change, and a call may fail, between two threads' calls.
RaceProjectOutcomes ==
    {Raises(Boom), Returns(<<>>), Returns(<<ProjP>>), Returns(<<ProjP, ProjQ>>)}

NoAccount == Account(<<>>, <<>>, <<>>, TRUE, None)

\* A thread's position and locals: the segments still to parse and the
\* account object built but not yet stored.
ThreadLocals(pc, segs, account) == [pc |-> pc, segs |-> segs, account |-> account]

(***************************************************************************)
(* State machine.                                                          *)
(***************************************************************************)
InitObject ==
    /\ _accounts = <<>>
    /\ _account_project_mappings = <<>>
    /\ _accounts_loaded = FALSE
    /\ clock = 0
    /\ last = [op |-> "none"]
    /\ worklog_calls = <<>>
    /\ threads = [t \in Threads |-> ThreadLocals("start", <<>>, NoAccount)]
    /\ entry_ids = <<>>

Init == env \in MainEnvs /\ InitObject

InitLoad == env \in LoadEnvs /\ InitObject

InitRace == env \in RaceEnvs /\ InitObject

\* The state _ensure_accounts_loaded leaves: the registry of the load, and
\* the flag set unless the load raised.
EnsureLoaded(ld) ==
    /\ _accounts' = ld.reg.accounts
    /\ _account_project_mappings' = ld.reg.mappings
    /\ _accounts_loaded' = (_accounts_loaded \/ ~ld.raised)

CurrentRegistry == Registry(_accounts, _account_project_mappings)

\* The outcomes _ensure_accounts_loaded can have: get_all_projects is
\* consulted only when the registry is not loaded yet and the configuration
\* string is empty, with any of its outcomes.
LoadedRegistries ==
    {ensure_accounts_loaded(CurrentRegistry, _accounts_loaded, env, po) :
        po \in IF ~_accounts_loaded /\ env = <<>> THEN ProjectOutcomes ELSE {Missing}}

\* The object is single-threaded: a call starts when no call is outstanding,
\* and `last` holds the call and its result until the caller takes it.
Idle == last.op = "none"

\* A direct call of _load_account_mappings (as the unit tests make): the flag
\* is left as it is.
LoadAccountMappings ==
    \E po \in IF env = <<>> THEN ProjectOutcomes ELSE {Missing} :
        LET ld == load_account_mappings(CurrentRegistry, env, po)
        IN  /\ Idle
            /\ _accounts' = ld.reg.accounts
            /\ _account_project_mappings' = ld.reg.mappings
            /\ last' = [op |-> "load", projects |-> po, raised |-> ld.raised,
                        exc |-> ld.exc]
            /\ worklog_calls' = <<>>
            /\ UNCHANGED <<entry_ids, threads, env, _accounts_loaded, clock>>

\* get_all_accounts: the load runs inside the try block, so an exception of
\* it would be answered with [].
GetAllAccounts ==
    /\ Idle
    /\ \E search_filter \in SearchFilterArgs, ld \in LoadedRegistries :
        /\ EnsureLoaded(ld)
        /\ last' = [op |-> "get_all_accounts", search_filter |-> search_filter]
                   @@ (IF ld.raised THEN Returned(<<>>)
                       ELSE Returned(get_all_accounts(ld.reg.accounts, search_filter)))
    /\ worklog_calls' = <<>>
    /\ UNCHANGED <<entry_ids, threads, env, clock>>

\* get_account has no try block: an exception of the load leaves the method.
GetAccount ==
    /\ Idle
    /\ \E account_id \in AccountIds, ld \in LoadedRegistries :
        /\ EnsureLoaded(ld)
        /\ last' = [op |-> "get_account", account_id |-> account_id,
                    raised |-> ld.raised, exc |-> ld.exc,
                    ret |-> IF ld.raised THEN None
                            ELSE get_account(ld.reg.accounts, account_id)]
    /\ worklog_calls' = <<>>
    /\ UNCHANGED <<entry_ids, threads, env, clock>>

GetAccountProjects ==
    /\ Idle
    /\ \E account_id \in AccountIds, ld \in LoadedRegistries, po \in ProjectOutcomes :
        /\ EnsureLoaded(ld)
        /\ last' = [op |-> "get_account_projects", account_id |-> account_id,
                    projects |-> po]
                   @@ (IF ld.raised THEN Returned(<<>>)
                       ELSE get_account_projects(ld.reg.accounts, account_id, po))
    /\ worklog_calls' = <<>>
    /\ UNCHANGED <<entry_ids, threads, env, clock>>

ValidateAccountAccess ==
    /\ Idle
    /\ \E account_id \in AccountIds, project_key \in ProjectKeyArgs, ld \in LoadedRegistries :
        /\ EnsureLoaded(ld)
        /\ last' = [op |-> "validate_account_access", account_id |-> account_id,
                    project_key |-> project_key, raised |-> FALSE,
                    ret |-> IF ld.raised THEN FALSE
                            ELSE validate_account_access(ld.reg.accounts, account_id,
                                                         project_key)]
    /\ worklog_calls' = <<>>
    /\ UNCHANGED <<entry_ids, threads, env, clock>>

\* The call and what the collaborators did, joined with its result
\* [raised, exc, ret, calls].
LogTimeRecord(args, res) ==
    /\ last' = args @@ [raised |-> res.raised, exc |-> res.exc, ret |-> res.ret]
    /\ worklog_calls' = res.calls

LogTimeToAccount ==
    /\ Idle
    /\ \E account_id \in AccountIds, time_spent \in TimeSpentArgs,
          description \in DescriptionArgs, project_key \in ProjectKeyArgs,
          issue_key \in IssueKeyArgs, started \in StartedArgs, ld \in LoadedRegistries :
        \E wo \in IF Truthy(issue_key) THEN WorklogOutcomes ELSE {Missing},
           pso \in IF Truthy(issue_key) THEN {Missing} ELSE ParseOutcomes :
            /\ EnsureLoaded(ld)
            /\ LogTimeRecord(
                 [op |-> "log_time_to_account", account_id |-> account_id,
                  time_spent |-> time_spent, description |-> description,
                  project_key |-> project_key, issue_key |-> issue_key,
                  started |-> started, add_worklog |-> wo,
                  parse_time_spent |-> pso, at |-> clock],
                 IF ld.raised THEN log_time_except(ld.exc, <<>>)
                 ELSE log_time_to_account(ld.reg.accounts, account_id, time_spent,
                                          description, project_key, issue_key,
                                          started, wo, pso, clock))
    /\ UNCHANGED <<entry_ids, threads, env, clock>>

\* The environment variable is changed by the process between calls.
SetEnv ==
    /\ Idle
    /\ \E e \in MainEnvs \ {env} : env' = e
    /\ UNCHANGED <<entry_ids, threads, _accounts, _account_project_mappings, _accounts_loaded, clock,
                   last, worklog_calls>>

\* The wall clock advances between calls.
Tick ==
    /\ Idle
    /\ clock < MaxClock
    /\ clock' = clock + 1
    /\ UNCHANGED <<entry_ids, threads, env, _accounts, _account_project_mappings, _accounts_loaded,
                   last, worklog_calls>>

\* The caller takes the result of the call; the next call may start.
Return ==
    /\ ~Idle
    /\ last' = [op |-> "none"]
    /\ worklog_calls' = <<>>
    /\ UNCHANGED <<entry_ids, threads, env, _accounts, _account_project_mappings, _accounts_loaded, clock>>

Next ==
    \/ LoadAccountMappings
    \/ GetAllAccounts
    \/ GetAccount
    \/ GetAccountProjects
    \/ ValidateAccountAccess
    \/ LogTimeToAccount
    \/ Tick
    \/ Return

Spec == Init /\ [][Next]_vars

\* The load step alone, over the larger set of configuration strings.
NextLoad == LoadAccountMappings

LoadSpec == InitLoad /\ [][NextLoad]_vars

\* The public operations alone, with the environment variable changing
\* between them.
NextLazy ==
    \/ GetAllAccounts
    \/ GetAccount
    \/ GetAccountProjects
    \/ ValidateAccountAccess
    \/ LogTimeToAccount
    \/ SetEnv
    \/ Return

LazySpec == Init /\ [][NextLazy]_vars

\* The value functions alone, over their own input sets.
\* A caller that logs time without an issue key and keeps the identifiers
\* of the entries it is given, up to MaxEntries of them.
LogStandaloneTime ==
    /\ Idle
    /\ Len(entry_ids) < MaxEntries
    /\ \E account_id \in AccountIds, time_spent \in TimeSpentArgs,
          pso \in ParseOutcomes, ld \in LoadedRegistries :
        /\ EnsureLoaded(ld)
        /\ LogTimeRecord(
             [op |-> "log_time_to_account", account_id |-> account_id,
              time_spent |-> time_spent, description |-> None,
              project_key |-> None, issue_key |-> None,
              started |-> None, add_worklog |-> Missing,
              parse_time_spent |-> pso, at |-> clock],
             IF ld.raised THEN log_time_except(ld.exc, <<>>)
             ELSE log_time_to_account(ld.reg.accounts, account_id, time_spent,
                                      None, None, None, None, Missing, pso, clock))
    /\ entry_ids' = IF last'.ret.success
                    THEN Append(entry_ids, last'.ret.time_log_entry.id)
                    ELSE entry_ids
    /\ UNCHANGED <<threads, env, clock>>

NextEntries ==
    \/ LogStandaloneTime
    \/ Tick
    \/ Return

EntriesSpec == Init /\ [][NextEntries]_vars

InitParse == env = <<>> /\ InitObject

\* The outcome [kind, value, exc] of a function as the result of a call.
Outcome(r) == [raised |-> r.kind = "raises", exc |-> r.exc, ret |-> r.value]

SimpleParseTimeSpent ==
    /\ Idle
    /\ \E time_spent \in DurationStrings :
        last' = [op |-> "simple_parse_time_spent", time_spent |-> time_spent]
                @@ Outcome(simple_parse_time_spent(time_spent))
    /\ UNCHANGED <<entry_ids, threads, env, _accounts, _account_project_mappings, _accounts_loaded,
                   clock, worklog_calls>>

FromApiResponse ==
    /\ Idle
    /\ \E data \in ApiPayloads :
        last' = [op |-> "from_api_response", data |-> data]
                @@ Outcome(from_api_response_seconds(data))
    /\ UNCHANGED <<entry_ids, threads, env, _accounts, _account_project_mappings, _accounts_loaded,
                   clock, worklog_calls>>

NextParse ==
    \/ SimpleParseTimeSpent
    \/ FromApiResponse

ParseSpec == InitParse /\ [][NextParse]_vars

\* A step of thread t changes its locals to l.
ThreadGoes(t, l) == threads' = [threads EXCEPT ![t] = l]

\* if not self._accounts_loaded:
ThreadCheckLoaded(t) ==
    /\ threads[t].pc = "start"
    /\ ThreadGoes(t, ThreadLocals(IF _accounts_loaded THEN "done" ELSE "getenv",
                                  <<>>, NoAccount))
    /\ UNCHANGED <<entry_ids, env, _accounts, _account_project_mappings, _accounts_loaded,
                   clock, last, worklog_calls>>

\* account_mappings = os.getenv(...); if not account_mappings: ... else split
ThreadGetEnv(t) ==
    /\ threads[t].pc = "getenv"
    /\ ThreadGoes(t, IF env = <<>> THEN ThreadLocals("projects", <<>>, NoAccount)
                     ELSE ThreadLocals("segment", Split(env, ";"), NoAccount))
    /\ UNCHANGED <<entry_ids, env, _accounts, _account_project_mappings, _accounts_loaded,
                   clock, last, worklog_calls>>

\* _create_default_account_mapping up to the construction of the account:
\* a failing get_all_projects ends the load with nothing stored.
ThreadGetAllProjects(t) ==
    /\ threads[t].pc = "projects"
    /\ \E po \in RaceProjectOutcomes :
        ThreadGoes(t,
            IF po.kind = "raises" THEN ThreadLocals("flag", <<>>, NoAccount)
            ELSE IF po.value = <<>>
            THEN ThreadLocals("store_account", <<>>,
                     Account(DefaultId, DefaultName, <<>>, TRUE, Some(DescNoProjects)))
            ELSE ThreadLocals("store_account", <<>>,
                     Account(DefaultId, DefaultName, DefaultProjectKeys(po.value),
                             TRUE, Some(DescAllProjects))))
    /\ UNCHANGED <<entry_ids, env, _accounts, _account_project_mappings, _accounts_loaded,
                   clock, last, worklog_calls>>

\* One pass of the loop head: a segment without ':' is skipped, another one
\* is split and its account built.
ThreadParseSegment(t) ==
    /\ threads[t].pc = "segment"
    /\ ThreadGoes(t,
          IF threads[t].segs = <<>> THEN ThreadLocals("flag", <<>>, NoAccount)
          ELSE IF ~Contains(Head(threads[t].segs), ":")
          THEN ThreadLocals("segment", Tail(threads[t].segs), NoAccount)
          ELSE ThreadLocals("store_account", threads[t].segs,
                   Account(Strip(SplitOnce(Head(threads[t].segs), ":")[1]),
                           Strip(SplitOnce(Head(threads[t].segs), ":")[1]),
                           ParseProjectKeys(SplitOnce(Head(threads[t].segs), ":")[2]),
                           TRUE, None)))
    /\ UNCHANGED <<entry_ids, env, _accounts, _account_project_mappings, _accounts_loaded,
                   clock, last, worklog_calls>>

\* self._accounts[account.id] = account
ThreadStoreAccount(t) ==
    /\ threads[t].pc = "store_account"
    /\ _accounts' = DictSet(_accounts, threads[t].account.id, threads[t].account)
    /\ ThreadGoes(t, [threads[t] EXCEPT !.pc = "store_mapping"])
    /\ UNCHANGED <<entry_ids, env, _account_project_mappings, _accounts_loaded, clock, last,
                   worklog_calls>>

\* self._account_project_mappings[account.id] = project_keys
ThreadStoreMapping(t) ==
    /\ threads[t].pc = "store_mapping"
    /\ _account_project_mappings' =
          DictSet(_account_project_mappings, threads[t].account.id,
                  threads[t].account.project_keys)
    /\ ThreadGoes(t,
          IF threads[t].segs = <<>> THEN ThreadLocals("flag", <<>>, NoAccount)
          ELSE ThreadLocals("segment", Tail(threads[t].segs), NoAccount))
    /\ UNCHANGED <<entry_ids, env, _accounts, _accounts_loaded, clock, last, worklog_calls>>

\* self._accounts_loaded = True
ThreadSetLoaded(t) ==
    /\ threads[t].pc = "flag"
    /\ _accounts_loaded' = TRUE
    /\ ThreadGoes(t, ThreadLocals("done", <<>>, NoAccount))
    /\ UNCHANGED <<entry_ids, env, _accounts, _account_project_mappings, clock, last,
                   worklog_calls>>

NextRace ==
    \E t \in Threads :
        \/ ThreadCheckLoaded(t)
        \/ ThreadGetEnv(t)
        \/ ThreadGetAllProjects(t)
        \/ ThreadParseSegment(t)
        \/ ThreadStoreAccount(t)
        \/ ThreadStoreMapping(t)
        \/ ThreadSetLoaded(t)

RaceSpec == InitRace /\ [][NextRace]_vars

(***************************************************************************)
(* Vocabulary of the properties: the call in `last`, read against the      *)
(* registry the call left.                                                 *)
(***************************************************************************)
IsValidate == last.op = "validate_account_access"
IsLogTime == last.op = "log_time_to_account"
IsGetProjects == last.op = "get_account_projects"
IsLoad == last.op = "load"

Known(id) == \E i \in 1..Len(_accounts) : _accounts[i].k = id
AccountOf(id) == _accounts[CHOOSE i \in 1..Len(_accounts) : _accounts[i].k = id].v
InMembership(id, key) ==
    \E i \in 1..Len(AccountOf(id).project_keys) : AccountOf(id).project_keys[i] = key

\* The account is known and active and the project key, when one is given
\* (not None, not empty), is in its membership.
AccessValid(id, project_key) ==
    /\ Known(id)
    /\ AccountOf(id).is_active
    /\ (Truthy(project_key) => InMembership(id, project_key.v))

Entry == last.ret.time_log_entry

(***************************************************************************)
(* C1                                                                      *)
(***************************************************************************)
\* C1 as stated: validate_account_access returns false exactly when the account
\* is unknown, inactive, or a project key is supplied (any value other than
\* None) that is not in the account's project_keys, and true otherwise.
C1_AnySuppliedKeyChecked ==
    IsValidate =>
        (last.ret <=> /\ Known(last.account_id)
                      /\ AccountOf(last.account_id).is_active
                      /\ (last.project_key.some =>
                            InMembership(last.account_id, last.project_key.v)))

\* C1 amended: validate_account_access returns false exactly when the account
\* is unknown, inactive, or a non-empty project key is supplied that is not in
\* the account's project_keys; an empty project key counts as none.
C1_ValidateAccess ==
    IsValidate => (last.ret <=> AccessValid(last.account_id, last.project_key))

C1_Witness ==
    /\ IsValidate
    /\ Known(last.account_id)
    /\ Truthy(last.project_key)
    /\ ~InMembership(last.account_id, last.project_key.v)
    /\ last.ret = FALSE

(***************************************************************************)
(* C2                                                                      *)
(***************************************************************************)
\* C2: log_time_to_account raises to its caller whenever the account id is
\* unknown or the supplied project key is not in the account's membership.
C2_InvalidAccessRaises ==
    (IsLogTime /\ ~AccessValid(last.account_id, last.project_key)) => last.raised

(***************************************************************************)
(* C3                                                                      *)
(***************************************************************************)
\* The exceptions raised after a successful validation in the call in `last`.
FailuresAfterValidation ==
    IF Truthy(last.issue_key)
    THEN IF last.add_worklog.kind = "missing"
         THEN {Msg("add_worklog method not available", <<>>)}
         ELSE IF last.add_worklog.kind = "raises" THEN {last.add_worklog.exc} ELSE {}
    ELSE IF last.parse_time_spent.kind = "raises" THEN {last.parse_time_spent.exc}
         ELSE IF last.parse_time_spent.kind = "missing"
                 /\ simple_parse_time_spent(last.time_spent).kind = "raises"
              THEN {simple_parse_time_spent(last.time_spent).exc}
              ELSE {}

\* C3: when validation succeeds, a later failure (add_worklog missing or
\* raising, any other exception) is not propagated: the call returns
\* {success: false, error: <the exception message>}.
C3_FailureEnvelope ==
    (IsLogTime /\ AccessValid(last.account_id, last.project_key)) =>
        \A e \in FailuresAfterValidation :
            /\ ~last.raised
            /\ last.ret.success = FALSE
            /\ last.ret.error = e

C3_Witness ==
    /\ IsLogTime
    /\ AccessValid(last.account_id, last.project_key)
    /\ Truthy(last.issue_key)
    /\ last.add_worklog.kind = "raises"
    /\ ~last.raised
    /\ last.ret = [success |-> FALSE, error |-> Boom]

(***************************************************************************)
(* C4                                                                      *)
(***************************************************************************)
\* C4: add_worklog is never invoked in a log_time_to_account call whose
\* account/project validation fails.
C4_NoDelegationWithoutValidation ==
    (IsLogTime /\ ~AccessValid(last.account_id, last.project_key)) =>
        worklog_calls = <<>>

C4_Witness ==
    /\ IsLogTime
    /\ Known(last.account_id)
    /\ ~AccessValid(last.account_id, last.project_key)
    /\ Truthy(last.issue_key)
    /\ last.add_worklog.kind = "returns"
    /\ worklog_calls = <<>>

(***************************************************************************)
(* C5                                                                      *)
(***************************************************************************)
PassedThrough ==
    /\ Len(worklog_calls) = 1
    /\ worklog_calls[1] = [issue_key |-> last.issue_key.v,
                           time_spent |-> last.time_spent,
                           comment |-> last.description,
                           started |-> last.started]

\* C5 as stated: with an issue key and a successful validation, add_worklog is
\* invoked exactly once with issue_key, time_spent, comment = description and
\* started passed through.
C5_AlwaysDelegatesOnce ==
    (IsLogTime /\ Truthy(last.issue_key)
        /\ AccessValid(last.account_id, last.project_key)) => PassedThrough

\* C5 amended: with a non-empty issue key, a successful validation and an
\* add_worklog method on the object, add_worklog is invoked exactly once with
\* issue_key, time_spent, comment = description and started passed through.
C5_DelegatesOnceWhenAvailable ==
    (IsLogTime /\ Truthy(last.issue_key)
        /\ AccessValid(last.account_id, last.project_key)
        /\ last.add_worklog.kind # "missing") => PassedThrough

C5_Witness ==
    /\ IsLogTime
    /\ Truthy(last.issue_key)
    /\ AccessValid(last.account_id, last.project_key)
    /\ last.add_worklog.kind = "returns"
    /\ last.started = None
    /\ last.description # None
    /\ Len(worklog_calls) = 1
    /\ worklog_calls[1].started = None
    /\ worklog_calls[1].comment = last.description

GrammarSeconds(ts) ==
    LET suffixed == ts # <<>> /\ ts[Len(ts)] \in {"h", "m", "d"}
        digits == IF suffixed THEN SubSeq(ts, 1, Len(ts) - 1) ELSE ts
        unit == IF ~suffixed THEN 60
                ELSE IF ts[Len(ts)] = "h" THEN 3600
                ELSE IF ts[Len(ts)] = "m" THEN 60 ELSE 86400
    IN  IF digits # <<>> /\ AllDigits(digits) THEN DigitsValue(digits) * unit ELSE 60

\* The duration's number is infinite.
InfiniteDuration(ts) ==
    LET suffixed == ts # <<>> /\ ts[Len(ts)] \in {"h", "m", "d"}
    IN  (IF suffixed THEN SubSeq(ts, 1, Len(ts) - 1) ELSE ts) = <<"i", "n", "f">>

\* C7 as stated: without an issue key and with a successful validation,
\* add_worklog is not invoked and the call returns a success envelope whose
\* time_spent_seconds is the locally parsed duration and whose account_id is
\* the given id.
C7_AlwaysLocalParse ==
    (IsLogTime /\ ~last.issue_key.some
        /\ AccessValid(last.account_id, last.project_key)) =>
        /\ worklog_calls = <<>>
        /\ ~last.raised
        /\ last.ret.success = TRUE
        /\ Entry.time_spent_seconds = GrammarSeconds(last.time_spent)
        /\ Entry.account_id = last.account_id

\* C7 amended: without a (non-empty) issue key and with a successful
\* validation, add_worklog is not invoked and nothing is raised.  When the
\* object has a _parse_time_spent method, its result is the entry's
\* time_spent_seconds, and its exception gives a failure envelope.  Otherwise
\* the duration is parsed locally with the suffix grammar and the call returns
\* a success envelope with that value and the given account id, except for an
\* infinite duration, where the local parse raises OverflowError and the call
\* returns a failure envelope.
C7_AccountBranch ==
    (IsLogTime /\ ~Truthy(last.issue_key)
        /\ AccessValid(last.account_id, last.project_key)) =>
        /\ worklog_calls = <<>>
        /\ ~last.raised
        /\ IF last.parse_time_spent.kind = "raises"
           THEN last.ret = [success |-> FALSE, error |-> last.parse_time_spent.exc]
           ELSE IF last.parse_time_spent.kind = "missing" /\ InfiniteDuration(last.time_spent)
           THEN last.ret = [success |-> FALSE, error |-> OverflowMsg]
           ELSE /\ last.ret.success = TRUE
                /\ Entry.account_id = last.account_id
                /\ Entry.time_spent_seconds =
                      IF last.parse_time_spent.kind = "returns"
                      THEN last.parse_time_spent.value
                      ELSE GrammarSeconds(last.time_spent)

C7_Witness ==
    /\ IsLogTime
    /\ last.issue_key = None
    /\ AccessValid(last.account_id, last.project_key)
    /\ last.parse_time_spent.kind = "missing"
    /\ last.time_spent = <<"4", "5">>
    /\ last.ret.success = TRUE
    /\ Entry.time_spent_seconds = 2700
    /\ Entry.account_id = last.account_id
    /\ worklog_calls = <<>>

(***************************************************************************)
(* C8                                                                      *)
(***************************************************************************)
\* C8: get_account_projects with an account id that is not in the registry
\* raises an account-not-found error.
C8_UnknownAccountRaises ==
    (IsGetProjects /\ ~Known(last.account_id)) => last.raised

(***************************************************************************)
(* C9                                                                      *)
(***************************************************************************)
\* C9: for a known account, get_account_projects returns the projects of the
\* live list whose key is in the account's project_keys, in the order of the
\* live list; an empty list, and no error, when none matches.
C9_LiveProjectsInOrder ==
    (IsGetProjects /\ Known(last.account_id) /\ last.projects.kind = "returns") =>
        /\ ~last.raised
        /\ last.ret = SelectSeq(last.projects.value,
                                LAMBDA p : /\ "key" \in DOMAIN p
                                           /\ InMembership(last.account_id, p.key))

C9_Witness ==
    /\ IsGetProjects
    /\ Known(last.account_id)
    /\ AccountOf(last.account_id).project_keys = <<<<"P">>, <<"Q">>>>
    /\ last.projects = Returns(<<ProjQ, ProjP>>)
    /\ last.ret = <<ProjQ, ProjP>>

C9_WitnessEmpty ==
    /\ IsGetProjects
    /\ Known(last.account_id)
    /\ last.projects.kind = "returns"
    /\ last.projects.value # <<>>
    /\ ~last.raised
    /\ last.ret = <<>>

(***************************************************************************)
(* C10                                                                     *)
(***************************************************************************)
EnvSegments == Split(env, ";")
SegmentName(seg) == SubSeq(seg, 1, IndexOf(seg, ":") - 1)
SegmentTail(seg) == SubSeq(seg, IndexOf(seg, ":") + 1, Len(seg))

NoBlank(tok) == tok # <<>> /\ \A i \in 1..Len(tok) : tok[i] # " "

\* ';'-separated segments, each name:KEY,KEY,... with a name and keys that are
\* not empty and hold no blank.
WellFormedSegment(seg) ==
    /\ Contains(seg, ":")
    /\ NoBlank(SegmentName(seg))
    /\ LET tail == Split(SegmentTail(seg), ",")
       IN  \A k \in 1..Len(tail) : NoBlank(tail[k])

WellFormed ==
    /\ env # <<>>
    /\ \A i \in 1..Len(EnvSegments) : WellFormedSegment(EnvSegments[i])

DistinctNames ==
    \A i, j \in 1..Len(EnvSegments) :
        i # j => SegmentName(EnvSegments[i]) # SegmentName(EnvSegments[j])

OneAccountPerSegment ==
    /\ Len(_accounts) = Len(EnvSegments)
    /\ \A i \in 1..Len(EnvSegments) :
          /\ Known(SegmentName(EnvSegments[i]))
          /\ AccountOf(SegmentName(EnvSegments[i])).project_keys
               = Split(SegmentTail(EnvSegments[i]), ",")

\* C10 as stated: for a well-formed mapping string the load produces exactly
\* one account per segment, each with the comma-split tail of its segment as
\* its project-key list.
C10_OneAccountPerSegment == (IsLoad /\ WellFormed) => OneAccountPerSegment

\* C10 amended: for a well-formed mapping string whose segment names are
\* pairwise distinct, the load produces exactly one account per segment, each
\* with the comma-split tail of its segment as its project-key list, in the
\* same order.
C10_OneAccountPerDistinctName ==
    (IsLoad /\ WellFormed /\ DistinctNames) => OneAccountPerSegment

C10_Witness ==
    /\ IsLoad
    /\ WellFormed
    /\ DistinctNames
    /\ Len(EnvSegments) = 2
    /\ Len(_accounts) = 2
    /\ Known(<<"a">>)
    /\ AccountOf(<<"a">>).project_keys = <<<<"P">>, <<"Q">>>>

(***************************************************************************)
(* C11                                                                     *)
(***************************************************************************)
\* The keys of the projects of a live list that have one.
KeysOfProjects(ps) ==
    LET withKey == SelectSeq(ps, LAMBDA p : "key" \in DOMAIN p /\ p.key # <<>>)
    IN  [i \in 1..Len(withKey) |-> withKey[i].key]

\* C11: with an empty or unset configuration string, after loading the
\* registry holds exactly one account, 'default', whose project keys are the
\* keys of the projects get_all_projects returned at load time, or the empty
\* list when the collaborator is unavailable, returns nothing or fails.
C11_EmptyEnvOneDefault ==
    (IsLoad /\ env = <<>>) =>
        /\ Len(_accounts) = 1
        /\ Known(DefaultId)
        /\ AccountOf(DefaultId).id = DefaultId
        /\ AccountOf(DefaultId).project_keys =
               (IF last.projects.kind = "returns"
                THEN KeysOfProjects(last.projects.value) ELSE <<>>)

(***************************************************************************)
(* C12                                                                     *)
(***************************************************************************)
\* The configuration string is non-empty and none of its segments has ':'.
NoSegmentParses ==
    /\ env # <<>>
    /\ \A i \in 1..Len(EnvSegments) : ~Contains(EnvSegments[i], ":")

\* C12 as stated: a non-empty configuration string that yields zero accounts
\* makes the load fall back to the single 'default' account.
C12_ZeroAccountsFallsBack ==
    (IsLoad /\ NoSegmentParses) =>
        (Len(_accounts) = 1 /\ Known(DefaultId))

\* C12 amended: a non-empty configuration string that yields zero accounts
\* leaves the registry as it was (empty on a fresh object): every segment is
\* skipped and no default account is created.
C12_ZeroAccountsNoFallback ==
    (IsLoad /\ NoSegmentParses) =>
        (_accounts = <<>> /\ _account_project_mappings = <<>> /\ ~last.raised)

C12_Witness ==
    /\ IsLoad
    /\ NoSegmentParses
    /\ Len(EnvSegments) = 2
    /\ _accounts = <<>>

(***************************************************************************)
(* C13                                                                     *)
(***************************************************************************)
\* C13: the load never raises to its caller, whatever the configuration
\* string and whatever get_all_projects does (an exception of the collaborator
\* is swallowed); and had the try block raised on the registry at hand, the
\* handler would answer with the default-account fallback, without raising.
C13_LoadNeverRaises ==
    IsLoad =>
        /\ ~last.raised
        /\ \A po \in ProjectOutcomes :
              LET handled == load_account_mappings_except(
                                 [raised |-> TRUE, exc |-> Boom, reg |-> CurrentRegistry], po)
              IN  /\ ~handled.raised
                  /\ handled = create_default_account_mapping(CurrentRegistry, po)

C13_Witness ==
    /\ IsLoad
    /\ env = <<>>
    /\ last.projects.kind = "raises"
    /\ ~last.raised
    /\ _accounts = <<>>

(***************************************************************************)
(* C14                                                                     *)
(***************************************************************************)
PublicOps ==
    {"get_all_accounts", "get_account", "get_account_projects",
     "validate_account_access", "log_time_to_account"}

RegistryEmpty == _accounts = <<>> /\ _account_project_mappings = <<>>

\* A public operation is called in this step.
PublicCall == last.op = "none" /\ last'.op \in PublicOps

\* C14: the registry is built at most once, lazily: construction leaves it
\* empty and not loaded, it stays empty until the first public operation,
\* that operation loads it, and once loaded no public operation changes the
\* account map or the project-key map, even when the environment variable or
\* the live project list has changed in between.
C14_BuiltOnceLazily ==
    /\ ~_accounts_loaded /\ RegistryEmpty
    /\ [](~_accounts_loaded => RegistryEmpty)
    /\ [][/\ PublicCall => _accounts_loaded'
          /\ _accounts_loaded =>
                (_accounts_loaded'
                 /\ UNCHANGED <<_accounts, _account_project_mappings>>)]_vars

\* A public operation has answered from a registry loaded under another
\* value of the environment variable than the present one.
C14_Witness ==
    /\ _accounts_loaded
    /\ last.op = "get_all_accounts"
    /\ env = <<>>
    /\ Known(<<"a">>)
    /\ ~Known(DefaultId)

(***************************************************************************)
(* C15                                                                     *)
(***************************************************************************)
\* C15: the load is idempotent: after a load, running the load step again,
\* directly or through _ensure_accounts_loaded with the flag still unset,
\* with the same configuration string and the same get_all_projects outcome
\* leaves the account map and the project-key map as the first load left them.
C15_LoadIdempotent ==
    IsLoad =>
        /\ load_account_mappings(CurrentRegistry, env, last.projects).reg
              = CurrentRegistry
        /\ ensure_accounts_loaded(CurrentRegistry, FALSE, env, last.projects).reg
              = CurrentRegistry

\* A load of two segments with the same name: the second store replaced the
\* first, and will do so again.
C15_Witness ==
    /\ IsLoad
    /\ Len(EnvSegments) = 2
    /\ Len(_accounts) = 1
    /\ Known(<<"b">>)
    /\ AccountOf(<<"b">>).project_keys = <<<<"Q">>>>
    /\ SegmentTail(EnvSegments[1]) = <<"P">>

(***************************************************************************)
(* C16                                                                     *)
(***************************************************************************)
IsGetAll == last.op = "get_all_accounts"

\* Two characters that are equal up to letter case.
CaseEq(c, d) ==
    \/ c = d
    \/ \E i \in 1..Len(UpperLetters) : {c, d} = {UpperLetters[i], LowerLetters[i]}

\* name contains f as a case-insensitive substring.
ContainsIgnoringCase(name, f) ==
    \E i \in 0..(Len(name) - Len(f)) :
        \A j \in 1..Len(f) : CaseEq(name[i + j], f[j])

\* The accounts of the registry, in its order, that a filter selects.
SelectedAccounts(search_filter) ==
    SelectSeq([i \in 1..Len(_accounts) |-> _accounts[i].v],
              LAMBDA a : ~search_filter.some
                         \/ ContainsIgnoringCase(a.name, search_filter.v))

\* C16: get_all_accounts(filter) returns exactly the registry's accounts
\* whose display name contains the filter as a case-insensitive substring,
\* every account when the filter is None, and an empty list (never an error)
\* when nothing matches.
C16_FilterByName ==
    IsGetAll =>
        /\ ~last.raised
        /\ Len(last.ret) = Len(SelectedAccounts(last.search_filter))
        /\ \A i \in 1..Len(last.ret) :
              /\ last.ret[i].id = SelectedAccounts(last.search_filter)[i].id
              /\ last.ret[i].name = SelectedAccounts(last.search_filter)[i].name
              /\ last.ret[i].project_count
                    = Len(SelectedAccounts(last.search_filter)[i].project_keys)

\* An upper-case filter has selected one of two accounts by a lower-case name.
C16_Witness ==
    /\ IsGetAll
    /\ last.search_filter = Some(<<"A">>)
    /\ Len(_accounts) = 2
    /\ Len(last.ret) = 1
    /\ last.ret[1].id = <<"a">>

\* A filter in another letter case has selected 'Default Account'.
C16_WitnessDefault ==
    /\ IsGetAll
    /\ last.search_filter = Some(<<"C", "C">>)
    /\ Len(last.ret) = 1
    /\ last.ret[1].id = DefaultId

\* A filter that matches nothing in a registry with accounts.
C16_WitnessNoMatch ==
    /\ IsGetAll
    /\ last.search_filter = Some(<<"z">>)
    /\ Len(_accounts) = 2
    /\ last.ret = <<>>

(***************************************************************************)
(* C17                                                                     *)
(***************************************************************************)
IsGetAccount == last.op = "get_account"

\* C17: get_account(id) never raises; it returns the registry's account with
\* that id when there is one and None otherwise, on every call, the first one
\* (which runs the load) included.
C17_GetAccountTotal ==
    IsGetAccount =>
        /\ ~last.raised
        /\ _accounts_loaded
        /\ (Known(last.account_id) => last.ret = Some(AccountOf(last.account_id)))
        /\ (~Known(last.account_id) => last.ret = None)

\* The second of two accounts was asked for and returned.
C17_Witness ==
    /\ IsGetAccount
    /\ Len(_accounts) = 2
    /\ last.account_id = <<"b">>
    /\ last.ret.some
    /\ last.ret.v.id = <<"b">>

\* The load met a failing get_all_projects and left no account: None, no raise.
C17_WitnessNotFound ==
    /\ IsGetAccount
    /\ env = <<>>
    /\ _accounts = <<>>
    /\ last.account_id = DefaultId
    /\ last.ret = None
    /\ ~last.raised

(***************************************************************************)
(* C18                                                                     *)
(***************************************************************************)
IsSimpleParse == last.op = "simple_parse_time_spent"

\* The duration's unit in seconds and the text of its number.
DurationSuffixed(ts) == ts # <<>> /\ ts[Len(ts)] \in {"h", "m", "d"}
DurationUnit(ts) ==
    IF ~DurationSuffixed(ts) THEN 60
    ELSE IF ts[Len(ts)] = "h" THEN 3600
    ELSE IF ts[Len(ts)] = "m" THEN 60
    ELSE 86400
DurationNumber(ts) ==
    Strip(IF DurationSuffixed(ts) THEN SubSeq(ts, 1, Len(ts) - 1) ELSE ts)

Signed(n) == n # <<>> /\ n[1] \in {"-", "+"}
Magnitude(n) == IF Signed(n) THEN SubSeq(n, 2, Len(n)) ELSE n

\* A decimal numeral: digits with at most one point, at least one digit.
IsDecimal(u) ==
    /\ \A i \in 1..Len(u) : IsDigit(u[i]) \/ u[i] = "."
    /\ Cardinality({i \in 1..Len(u) : u[i] = "."}) <= 1
    /\ \E i \in 1..Len(u) : IsDigit(u[i])
FractionLen(u) == IF Contains(u, ".") THEN Len(u) - IndexOf(u, ".") ELSE 0
\* The decimal u times unit, cut to a whole number.
DecimalTimes(u, unit) ==
    (DigitsValue(SelectSeq(u, IsDigit)) * unit) \div Pow10(FractionLen(u))

\* number * unit (toward zero) for a decimal number, 60 for any other text.
DecimalSeconds(ts) ==
    IF ~IsDecimal(Magnitude(DurationNumber(ts))) THEN 60
    ELSE IF DurationNumber(ts)[1] = "-"
         THEN 0 - DecimalTimes(Magnitude(DurationNumber(ts)), DurationUnit(ts))
    ELSE DecimalTimes(Magnitude(DurationNumber(ts)), DurationUnit(ts))

InfiniteNumber(ts) == Magnitude(DurationNumber(ts)) = <<"i", "n", "f">>

IsWhole(u) == IsDecimal(u) /\ ~Contains(u, ".")

\* n is the exact whole value e, or the whole number next to it toward zero.
AtMostOneBelow(n, e) ==
    IF e >= 0 THEN n \in {e, e - 1} /\ n >= 0
    ELSE n \in {e, e + 1}

C18_WitnessHours ==
    /\ IsSimpleParse /\ last.time_spent = <<"2", "h">> /\ last.ret = 7200

C18_WitnessDays ==
    /\ IsSimpleParse /\ last.time_spent = <<"1", "d">> /\ last.ret = 86400

C18_WitnessMinutes ==
    /\ IsSimpleParse /\ last.time_spent = <<"4", "5">> /\ last.ret = 2700

C18_WitnessUnparseable ==
    /\ IsSimpleParse /\ last.time_spent = <<"x">> /\ last.ret = 60 /\ ~last.raised

C18_WitnessFraction ==
    /\ IsSimpleParse /\ last.time_spent = <<"4", ".", "1">> /\ last.ret = 245

C18_WitnessInfinite ==
    /\ IsSimpleParse /\ last.time_spent = <<"i", "n", "f", "h">> /\ last.raised

(***************************************************************************)
(* C19                                                                     *)
(***************************************************************************)
IsFromApi == last.op = "from_api_response"

\* The payload carries no value for time_spent_seconds, or one that is not a
\* whole number: None, a list, not-a-number, or a text other than an integer
\* numeral.
IsIntegerNumeral(s) ==
    IsWhole(Magnitude(Strip(s)))
SecondsMissingOrUnparseable(data) ==
    \/ data.shape # "dict"
    \/ ~data.has
    \/ data.value.t \in {"none", "list"}
    \/ data.value.t = "str" /\ ~IsIntegerNumeral(data.value.s)
    \/ data.value.t = "float" /\ data.value.f.kind = "nan"

\* C19: the time_spent_seconds of every entry the system produces is a
\* non-negative integer: the value from_api_response stores (0 when the
\* payload value is missing or unparseable) and the value the local duration
\* parse hands to the entry.
C19_SecondsNonNegative ==
    /\ (IsFromApi /\ ~last.raised) =>
          /\ last.ret >= 0
          /\ SecondsMissingOrUnparseable(last.data) => last.ret = 0
    /\ (IsSimpleParse /\ ~last.raised) => last.ret >= 0

(***************************************************************************)
(* C20                                                                     *)
(***************************************************************************)
AllDone == \A t \in Threads : threads[t].pc = "done"

\* The registries a single load of a fresh object can leave under the
\* present configuration string.
SequentialLoads ==
    {load_account_mappings(Registry(<<>>, <<>>), env, po).reg :
        po \in RaceProjectOutcomes}

\* C20: when the first public calls of several threads run the
\* unsynchronized load concurrently, then once every load has finished the
\* registry equals the registry a single sequential load would have produced.
C20_RaceBenign ==
    AllDone => CurrentRegistry \in SequentialLoads

(***************************************************************************)
(* C21                                                                     *)
(***************************************************************************)
\* C21: when the configuration variable is unset (empty), or holds a string
\* with no 'name:keys' segment, the load completes without error and leaves
\* the registry with zero accounts and zero project mappings.
C21_NothingLoadedWithoutSegments ==
    (IsLoad /\ (env = <<>> \/ NoSegmentParses)) =>
        (~last.raised /\ _accounts = <<>> /\ _account_project_mappings = <<>>)

(***************************************************************************)
(* C22                                                                     *)
(***************************************************************************)
UpperOf(c) ==
    IF \E i \in 1..Len(LowerLetters) : LowerLetters[i] = c
    THEN UpperLetters[CHOOSE i \in 1..Len(LowerLetters) : LowerLetters[i] = c]
    ELSE c

\* Hyphens replaced by spaces and each word capitalized.
Humanized(name) ==
    [i \in 1..Len(name) |->
        IF name[i] = "-" THEN " "
        ELSE IF i = 1 \/ name[i - 1] = "-" THEN UpperOf(name[i])
        ELSE name[i]]

\* C22: every account loaded from a mapping segment has the segment's
\* trimmed name as its id and the humanized form of that name (hyphens to
\* spaces, words capitalized) as its display name.
C22_HumanizedName ==
    (IsLoad /\ env # <<>>) =>
        \A i \in 1..Len(EnvSegments) :
            Contains(EnvSegments[i], ":") =>
                /\ Known(Strip(SegmentName(EnvSegments[i])))
                /\ AccountOf(Strip(SegmentName(EnvSegments[i]))).id
                      = Strip(SegmentName(EnvSegments[i]))
                /\ AccountOf(Strip(SegmentName(EnvSegments[i]))).name
                      = Humanized(Strip(SegmentName(EnvSegments[i])))

(***************************************************************************)
(* C23                                                                     *)
(***************************************************************************)
\* No thread is between the flag test and the flag store of a load.
NoLoadInProgress == \A t \in Threads : threads[t].pc \in {"start", "done"}

\* The two maps have the same identifiers, and each identifier's list in the
\* project-key map is the project_keys of the account stored under it.
MapsParallel ==
    /\ {_accounts[i].k : i \in 1..Len(_accounts)}
         = {_account_project_mappings[i].k : i \in 1..Len(_account_project_mappings)}
    /\ \A i \in 1..Len(_accounts) :
         \A j \in 1..Len(_account_project_mappings) :
            _accounts[i].k = _account_project_mappings[j].k =>
                _account_project_mappings[j].v = _accounts[i].v.project_keys

\* C23: in every reachable state in which no load step is under way, the
\* account map and the project-key map are parallel.
C23_MapsParallel ==
    NoLoadInProgress => MapsParallel

(***************************************************************************)
(* C24                                                                     *)
(***************************************************************************)
\* The returned entry carries the started field with value x.
EntryStartedIs(x) == "started" \in DOMAIN Entry /\ Entry.started = x

IsLogTimeSuccess == IsLogTime /\ ~last.raised /\ last.ret.success

\* The started value of the collaborator's worklog.
WorklogStarted == Get(last.add_worklog.value, "started", <<>>)

\* C24 as stated: the entry's started is the caller's started whenever one
\* is supplied (any value other than None); otherwise it is the
\* collaborator's started in the issue branch and the wall-clock time in the
\* no-issue branch.
C24_StartedWheneverSupplied ==
    IsLogTimeSuccess =>
        IF last.started.some THEN EntryStartedIs(last.started.v)
        ELSE IF Truthy(last.issue_key) THEN EntryStartedIs(WorklogStarted)
        ELSE EntryStartedIs(IsoFormat(last.at))

\* C24 amended: the entry's started is the caller's started whenever a
\* non-empty one is supplied; when the caller supplied None or the empty
\* string it is the collaborator's started in the issue branch and the
\* wall-clock time in the no-issue branch.
C24_StartedWhenNonEmpty ==
    IsLogTimeSuccess =>
        IF Truthy(last.started) THEN EntryStartedIs(last.started.v)
        ELSE IF Truthy(last.issue_key) THEN EntryStartedIs(WorklogStarted)
        ELSE EntryStartedIs(IsoFormat(last.at))

\* The caller's started has displaced the collaborator's in the issue branch.
C24_Witness ==
    /\ IsLogTimeSuccess
    /\ Truthy(last.issue_key)
    /\ last.started = Some(<<"s", "1">>)
    /\ WorklogStarted = <<"s", "0">>
    /\ Entry.started = <<"s", "1">>

\* An empty started in the no-issue branch gave the wall-clock time.
C24_WitnessEmpty ==
    /\ IsLogTimeSuccess
    /\ ~Truthy(last.issue_key)
    /\ last.started = Some(<<>>)
    /\ last.at = 1
    /\ Entry.started = IsoFormat(1)

C25_WitnessRefused ==
    /\ IsLogTime
    /\ Known(last.account_id)
    /\ Truthy(last.project_key)
    /\ ~InMembership(last.account_id, last.project_key.v)
    /\ ~last.ret.success

(***************************************************************************)
(* C26                                                                     *)
(***************************************************************************)
\* Thread t finds the loaded flag true and skips the load.
SkipsLoad(t) == threads[t].pc = "start" /\ threads'[t].pc = "done"

\* Every account of the registry r is in _accounts, under its identifier and
\* with its value.
HoldsAccountsOf(r) ==
    \A i \in 1..Len(r.accounts) :
        \E j \in 1..Len(_accounts) : _accounts[j] = r.accounts[i]

\* The registry holds every account of some complete load of the present
\* configuration.
RegistryComplete == \E r \in SequentialLoads : HoldsAccountsOf(r)

\* C26: under concurrent first access, whenever a thread observes the loaded
\* flag as true and skips loading, the registry already contains every
\* account that a complete load of the current configuration produces.
C26_NoPartialRead ==
    [][\A t \in Threads : SkipsLoad(t) => RegistryComplete]_vars

(***************************************************************************)
(* C27                                                                     *)
(***************************************************************************)
\* The project prefix of an issue key: the text before its first '-'.
ProjectPrefix(issue_key) == SplitOnce(issue_key, "-")[1]

\* C27: whenever log_time_to_account invokes add_worklog with issue key K,
\* the project prefix of K is in the account's project_keys, whether or not a
\* project_key argument was supplied.
C27_WorklogOnlyInMembership ==
    IsLogTime =>
        \A i \in 1..Len(worklog_calls) :
            /\ Known(last.account_id)
            /\ InMembership(last.account_id, ProjectPrefix(worklog_calls[i].issue_key))

(***************************************************************************)
(* C28                                                                     *)
(***************************************************************************)
AllActive == \A i \in 1..Len(_accounts) : _accounts[i].v.is_active

\* C28: every account in the registry is active in every reachable state,
\* and validate_account_access returns true for every known account whose
\* project key, when one is given, is in its membership: it is never refused
\* because of inactivity.
C28_AllAccountsActive ==
    /\ AllActive
    /\ (/\ IsValidate
        /\ Known(last.account_id)
        /\ (Truthy(last.project_key) =>
               InMembership(last.account_id, last.project_key.v)))
          => last.ret = TRUE

\* An account loaded from the configuration string passed validation for a
\* project of its membership.
C28_Witness ==
    /\ IsValidate
    /\ env # <<>>
    /\ Len(_accounts) = 2
    /\ Known(last.account_id)
    /\ AccountOf(last.account_id).is_active
    /\ Truthy(last.project_key)
    /\ InMembership(last.account_id, last.project_key.v)
    /\ last.ret = TRUE

(***************************************************************************)
(* C29                                                                     *)
(***************************************************************************)
\* The positions of the segments that name an account, and the trimmed name
\* of such a segment.
NamingSegments == {i \in 1..Len(EnvSegments) : Contains(EnvSegments[i], ":")}
TrimmedName(i) == Strip(SegmentName(EnvSegments[i]))

\* The last segment with the trimmed name of segment i.
LastNaming(i) ==
    CHOOSE j \in NamingSegments :
        /\ TrimmedName(j) = TrimmedName(i)
        /\ \A k \in NamingSegments : TrimmedName(k) = TrimmedName(i) => k <= j

\* C29: when several segments carry the same trimmed account name, the
\* registry holds a single account under that identifier, its project keys
\* are those of the last such segment (earlier keys are discarded, not
\* merged), and the number of accounts is the number of distinct names.
C29_LastSegmentWins ==
    (IsLoad /\ env # <<>>) =>
        /\ ~last.raised
        /\ \A i, j \in 1..Len(_accounts) : _accounts[i].k = _accounts[j].k => i = j
        /\ Len(_accounts) = Cardinality({TrimmedName(i) : i \in NamingSegments})
        /\ \A i \in NamingSegments :
              /\ Known(TrimmedName(i))
              /\ AccountOf(TrimmedName(i)).project_keys
                   = ParseProjectKeys(SegmentTail(EnvSegments[LastNaming(i)]))
              /\ DictHas(_account_project_mappings, TrimmedName(i))
              /\ DictGet(_account_project_mappings, TrimmedName(i))
                   = ParseProjectKeys(SegmentTail(EnvSegments[LastNaming(i)]))

\* Two segments whose names differ only by a blank: one account, with the
\* keys of the second segment and none of the first.
C29_Witness ==
    /\ IsLoad
    /\ Len(EnvSegments) = 2
    /\ SegmentName(EnvSegments[1]) = <<" ", "a">>
    /\ SegmentName(EnvSegments[2]) = <<"a">>
    /\ SegmentTail(EnvSegments[1]) = <<"P", ",", "Q">>
    /\ SegmentTail(EnvSegments[2]) = <<"Q">>
    /\ Len(_accounts) = 1
    /\ AccountOf(<<"a">>).project_keys = <<<<"Q">>>>

(***************************************************************************)
(* C30                                                                     *)
(***************************************************************************)
\* C30: any two successful log_time_to_account calls without an issue key
\* return entries with different ids, including two calls for the same
\* account made within the same clock second.
C30_UniqueEntryIds ==
    \A i, j \in 1..Len(entry_ids) : i # j => entry_ids[i] # entry_ids[j]

====
